---- MODULE Spec2Model ----
(***************************************************************************)
(* Model of src/search.py: BaseSearchCV (fit / test / predict) and the     *)
(* parameter-grid expansion of GridSearchCV.__init__.                      *)
(*                                                                         *)
(* Conventions                                                             *)
(*  - Python lists and numpy arrays are functions over 0..n-1, so that     *)
(*    best_index keeps the 0-based value the code stores.                  *)
(*  - A dict is a function whose DOMAIN is its key set.                    *)
(*  - An attribute that may not exist yet is an option: <<>> while the     *)
(*    attribute is missing, <<v>> once it holds v.                         *)
(*  - mean_test holds the row sum over the folds, i.e. n_folds times the   *)
(*    mean; n_folds is the same for every row, so order and ties of the    *)
(*    column are those of the means.  The std_*, *_time and *_train_*      *)
(*    columns are not modelled.                                            *)
(*  - An exception is a record [type, arg, line]: the Python exception     *)
(*    type, the measure it names (if any) and the source line raising it.  *)
(***************************************************************************)
EXTENDS Integers, Sequences, FiniteSets, TLC

VARIABLES
    param_grid,          \* self.param_grid (option)
    param_combinations,  \* self.param_combinations (option)
    measures,            \* self.measures
    refit,               \* self.refit: "" models False, else a measure name
    n_jobs,              \* self.n_jobs
    best_index,          \* self.best_index (option)
    best_params,         \* self.best_params (option)
    best_score,          \* self.best_score (option)
    best_estimator,      \* self.best_estimator (option)
    cv_results,          \* self.cv_results (option)
    pc,                  \* position inside fit(); "idle" between calls
    data,                \* argument of the running (or last) fit()
    delayed,             \* trials submitted so far, in submission order
    out,                 \* worker results received so far, by submission index
    loc,                 \* fit()'s local dicts once aggregated (option)
    last                 \* the last call: operation, exception, return value

vars == <<param_grid, param_combinations, measures, refit, n_jobs,
          best_index, best_params, best_score, best_estimator, cv_results,
          pc, data, delayed, out, loc, last>>

attrs == <<best_index, best_params, best_score, best_estimator, cv_results>>

(***************************************************************************)
(* Bounds of the model.                                                    *)
(***************************************************************************)
NComb == 2       \* parameter combinations of the searches that are fitted
NFolds == 2      \* folds produced by the splitter
MaxScore == 1    \* worker scores range over 0..MaxScore
MaxValues == 2   \* longest value list of a grid; values range over 1..MaxValues

(***************************************************************************)
(* Generic helpers.                                                        *)
(***************************************************************************)
Unset == <<>>
Some(v) == <<v>>
IsSet(o) == o # <<>>
Get(o) == o[1]

ZeroBased(s) == [i \in 0..(Len(s) - 1) |-> s[i + 1]]
Size(a) == Cardinality(DOMAIN a)

RECURSIVE SumTo(_, _)
SumTo(a, n) == IF n < 0 THEN 0 ELSE a[n] + SumTo(a, n - 1)

Min(S) == CHOOSE x \in S : \A y \in S : x <= y

(***************************************************************************)
(* itertools.product: the rightmost list advances fastest.                 *)
(***************************************************************************)
RECURSIVE ProductLeftFastest(_)
ProductLeftFastest(lists) ==
    IF Len(lists) = 0 THEN << <<>> >>
    ELSE LET h == Head(lists)
             P == ProductLeftFastest(Tail(lists))
         IN  [k \in 1..(Len(h) * Len(P)) |->
                 << h[((k - 1) % Len(h)) + 1] >> \o P[((k - 1) \div Len(h)) + 1]]

RECURSIVE Product(_)
Product(lists) ==
    IF Len(lists) = 0 THEN << <<>> >>
    ELSE LET h == Head(lists)
             P == Product(Tail(lists))
         IN  [k \in 1..(Len(h) * Len(P)) |->
                 << h[((k - 1) \div Len(P)) + 1] >> \o P[((k - 1) % Len(P)) + 1]]

\* dict(zip(keys, vals))
DictZip(keys, vals) ==
    [n \in {keys[k] : k \in 1..Len(keys)} |->
        vals[CHOOSE k \in 1..Len(keys) :
                keys[k] = n /\ \A j \in 1..Len(keys) : keys[j] = n => j <= k]]

Names(entries) == [k \in 1..Len(entries) |-> entries[k].name]
ValuesOf(entries) == [k \in 1..Len(entries) |-> entries[k].values]

(***************************************************************************)
(* The parameter grid: an ordered dict, here a sequence of entries         *)
(* [name, nested, values, sub].  A list-valued entry carries its value     *)
(* list in values; a nested option group (a dict of value lists) carries   *)
(* its own entries in sub.                                                 *)
(***************************************************************************)
ListEntry(n, vs) == [name |-> n, nested |-> FALSE, values |-> vs, sub |-> <<>>]
DictEntry(n, es) == [name |-> n, nested |-> TRUE, values |-> <<>>, sub |-> es]

\* Nested option groups are flattened into the list of their own
\* combinations; list-valued entries are kept as they are.
ParseEntry(e) ==
    IF e.nested
    THEN LET P == Product(ValuesOf(e.sub))
         IN  ListEntry(e.name, [k \in 1..Len(P) |-> DictZip(Names(e.sub), P[k])])
    ELSE e

_parse_options(grid) == [k \in 1..Len(grid) |-> ParseEntry(grid[k])]

\* [dict(zip(self.param_grid, v)) for v in product(*self.param_grid.values())]
CombinationsDroppingRepeats(grid) ==
    LET P == Product(ValuesOf(grid))
        S == {DictZip(Names(grid), P[k]) : k \in 1..Len(P)}
        first(c) == Min({k \in 1..Len(P) : DictZip(Names(grid), P[k]) = c})
        order == {first(c) : c \in S}
        nth(i) == CHOOSE k \in order : Cardinality({j \in order : j < k}) = i
    IN  [i \in 0..(Cardinality(S) - 1) |-> DictZip(Names(grid), P[nth(i)])]

Combinations(grid) ==
    LET P == Product(ValuesOf(grid))
    IN  [i \in 0..(Len(P) - 1) |-> DictZip(Names(grid), P[i + 1])]

(***************************************************************************)
(* Measures and BaseSearchCV.__init__.                                     *)
(***************************************************************************)
\* str.lower() on the measure names used here
Lower(s) ==
    CASE s = "RMSE" -> "rmse"
      [] s = "MAE" -> "mae"
      [] s = "FCP" -> "fcp"
      [] s = "MSE" -> "mse"
      [] OTHER -> s

LowerAll(ms) == [k \in DOMAIN ms |-> Lower(ms[k])]
MeasureSet(ms) == {ms[k] : k \in DOMAIN ms}

\* The refit argument: a bool or a string.
RefitBool(b) == [isstr |-> FALSE, b |-> b, s |-> ""]
RefitStr(s) == [isstr |-> TRUE, b |-> FALSE, s |-> s]

\* Lines 35-47.  ok = FALSE stands for the ValueError of line 37.
InitRefit(arg, ms) ==
    IF arg.isstr
    THEN IF Lower(arg.s) \notin MeasureSet(ms)
         THEN [ok |-> FALSE, refit |-> ""]
         ELSE [ok |-> TRUE, refit |-> Lower(arg.s)]
    ELSE IF arg.b
         THEN [ok |-> TRUE, refit |-> ms[0]]
         ELSE [ok |-> TRUE, refit |-> ""]

\* Lines 121-124: the direction in which a measure is optimised.
DirectionDefaultMin(m) ==
    CASE m \in {"mae", "rmse"} -> "min"
      [] m \in {"fcp"} -> "max"
      [] OTHER -> "min"

Direction(m) ==
    CASE m \in {"mae", "rmse"} -> "min"
      [] m \in {"fcp"} -> "max"
      [] OTHER -> "none"

(***************************************************************************)
(* Exceptions and calls.                                                   *)
(***************************************************************************)
Exc(t, a, l) == [type |-> t, arg |-> a, line |-> l]
NoErr == Exc("none", "", 0)
RefitWithFoldsError == Exc("ValueError", "", 57)     \* 'refit cannot be used when ...'
RefitDisabledTest == Exc("ValueError", "", 160)      \* 'refit is False, cannot use test()'
RefitDisabledPredict == Exc("ValueError", "", 173)   \* 'refit is False, cannot use predict()'
MissingMeasureKey(m) == Exc("KeyError", m, 82)       \* d[m]
UnknownDirectionKey(m) == Exc("KeyError", m, 125)    \* best_index[m]
NoBestEstimatorTest == Exc("AttributeError", "best_estimator", 162)
NoBestEstimatorPredict == Exc("AttributeError", "best_estimator", 175)
TrialConstructError == Exc("AlgoError", "", 63)      \* algo_class(**params) raising
WorkerError == Exc("WorkerError", "", 69)            \* fit_and_score raising
BestConstructError == Exc("AlgoError", "", 127)      \* algo_class(**best_params[m]) raising
FullFitError == Exc("AlgoError", "", 143)            \* the refit raising

Call(op, err, value) == [op |-> op, err |-> err, value |-> value]

(***************************************************************************)
(* The estimator (algo_class), opaque: its parameters, an identity and     *)
(* whether it was fitted on the full trainset.                             *)
(***************************************************************************)
NewEstimator(params, id) == [params |-> params, id |-> id, fitted |-> FALSE]
FitFull(est) == [est EXCEPT !.fitted = TRUE]
EstimatorTest(est, x) == [op |-> "test", est |-> est, arg |-> x]
EstimatorPredict(est, x) == [op |-> "predict", est |-> est, arg |-> x]

DictValues(d) == {d[k] : k \in DOMAIN d}
DictPut(d, k, v) == [x \in (DOMAIN d) \cup {k} |-> IF x = k THEN v ELSE d[x]]

\* identities of the estimator objects that are alive
LiveIds ==
    {delayed[k].est.id : k \in DOMAIN delayed}
      \cup (IF IsSet(best_estimator)
            THEN {e.id : e \in DictValues(Get(best_estimator))} ELSE {})
      \cup (IF IsSet(loc)
            THEN {e.id : e \in DictValues(Get(loc).best_estimator)} ELSE {})

FreshId(used) == Min((0..Cardinality(used)) \ used)

(***************************************************************************)
(* The dataset and the external worker.                                    *)
(*   user_folds: the data was loaded with load_from_folds()                *)
(*   table:      which scores the worker measures on this data             *)
(*   drops:      the worker's result for the last trial lacks the last     *)
(*               requested measure                                         *)
(***************************************************************************)
Tables == {"asc", "flat"}
Datasets == [user_folds : BOOLEAN, table : Tables, drops : BOOLEAN]

n_combinations == Size(Get(param_combinations))
n_trials == n_combinations * NFolds

\* the score of an estimator with parameters params on fold j
Score(table, params, j) ==
    CASE table = "asc" -> (params["k"] - 1) * NFolds + j
      [] OTHER -> 0

\* fit_and_score(algo, trainset, testset, measures, ...): only the test
\* measures dict of the returned tuple is modelled.
fit_and_score(d, trial, k) ==
    LET ms == IF d.drops /\ k = n_trials - 1
              THEN MeasureSet(measures) \ {measures[Size(measures) - 1]}
              ELSE MeasureSet(measures)
    IN  [trial |-> k,
         test_measures |-> [m \in ms |-> Score(d.table, trial.params, trial.fold)]]

(***************************************************************************)
(* Trial scheduling: lines 62-71.                                          *)
(***************************************************************************)
OneBased(a) == [k \in 1..Size(a) |-> a[k - 1]]
Extend(a, v) == [i \in 0..Size(a) |-> IF i < Size(a) THEN a[i] ELSE v]

\* cv.split(data): the folds, in the splitter's order
Folds == [k \in 1..NFolds |-> k - 1]

\* product(self.param_combinations, cv.split(data))
Trials ==
    LET P == Product(<<OneBased(Get(param_combinations)), Folds>>)
    IN  [k \in 0..(Len(P) - 1) |-> [params |-> P[k + 1][1], fold |-> P[k + 1][2]]]

\* the trials a worker holds: submitted and not yet returned
Returned == {out[s].trial : s \in DOMAIN out}
Running == (DOMAIN delayed) \ Returned

\* Parallel(n_jobs=...): at most n_jobs trials run at a time; with
\* n_jobs = 1 each trial runs to its end before the next one is built.
Window == n_jobs

\* Parallel(...)(delayed_list) returns the results in submission order: the
\* result of the k-th submitted call is the k-th element of the list.
SlotByCompletion(k) == Size(out)

Slot(k) == k

(***************************************************************************)
(* Aggregation and selection: lines 73-140.                                *)
(***************************************************************************)
\* [d[m] for d in test_measures_dicts] reshaped to (n_combinations, n_folds)
TestMatrix(results, m) ==
    [i \in 0..(n_combinations - 1) |->
        [j \in 0..(NFolds - 1) |-> results[i * NFolds + j].test_measures[m]]]

\* test_measures[m][:, split]
Column(mat, split) == [i \in DOMAIN mat |-> mat[i][split]]

\* test_measures[m].mean(axis=1), in units of 1/n_folds
MeanTest(mat) == [i \in DOMAIN mat |-> SumTo(mat[i], NFolds - 1)]

Perms(n) == {f \in [0..(n - 1) -> 0..(n - 1)] : \A a, b \in 0..(n - 1) : f[a] = f[b] => a = b}

\* ndarray.argsort() with the default kind, which is not a stable sort:
\* every permutation that sorts the column is a possible result.
Argsorts(col) ==
    {f \in Perms(Size(col)) : \A a, b \in DOMAIN col : a < b => col[f[a]] <= col[f[b]]}

\* rank = empty_like(indices); rank[indices] = arange(len(indices)) + 1
RankZeroBased(indices) ==
    [i \in DOMAIN indices |-> CHOOSE k \in DOMAIN indices : indices[k] = i]

RankOf(indices) ==
    [i \in DOMAIN indices |-> (CHOOSE k \in DOMAIN indices : indices[k] = i) + 1]

\* ndarray.argmin() / argmax(): the first index holding the extreme value
ArgMinLast(col) ==
    CHOOSE i \in DOMAIN col :
        /\ \A j \in DOMAIN col : col[i] <= col[j]
        /\ \A j \in DOMAIN col : col[j] = col[i] => j <= i

ArgMin(col) ==
    CHOOSE i \in DOMAIN col :
        /\ \A j \in DOMAIN col : col[i] <= col[j]
        /\ \A j \in DOMAIN col : col[j] = col[i] => i <= j

ArgMax(col) ==
    CHOOSE i \in DOMAIN col :
        /\ \A j \in DOMAIN col : col[i] >= col[j]
        /\ \A j \in DOMAIN col : col[j] = col[i] => i <= j

\* the dicts fit() builds: lines 89-93
EmptyLocals ==
    [cv_results |-> [split_test |-> <<>>, mean_test |-> <<>>, rank_test |-> <<>>,
                     params |-> <<>>, param |-> <<>>],
     best_index |-> <<>>, best_params |-> <<>>, best_score |-> <<>>,
     best_estimator |-> <<>>]

\* The measures whose key some trial result lacks, in the order of line 81.
MissingAt(results) ==
    {k \in DOMAIN measures :
        \E t \in DOMAIN results : measures[k] \notin DOMAIN results[t].test_measures}

\* The loop of lines 94-127 from measure k on.  sorts[k] is what argsort()
\* returns for measure k; fail is the index of the measure whose
\* algo_class(**best_params[m]) raises (Size(measures): none does).
RECURSIVE MeasureLoop(_, _, _, _, _)
MeasureLoop(k, acc, results, sorts, fail) ==
    IF k >= Size(measures) THEN [err |-> NoErr, acc |-> acc]
    ELSE
    LET m == measures[k]
        mat == TestMatrix(results, m)
        mean_test_measures == MeanTest(mat)
        indices == sorts[k]
        cv == [acc.cv_results EXCEPT
                 !.split_test = DictPut(@, m, [s \in 0..(NFolds - 1) |-> Column(mat, s)]),
                 !.mean_test = DictPut(@, m, mean_test_measures),
                 !.rank_test = DictPut(@, m, RankOf(indices))]
        bi == CASE Direction(m) = "min" ->
                     DictPut(acc.best_index, m, ArgMin(mean_test_measures))
                [] Direction(m) = "max" ->
                     DictPut(acc.best_index, m, ArgMax(mean_test_measures))
                [] OTHER -> acc.best_index
    IN  IF m \notin DOMAIN bi THEN [err |-> UnknownDirectionKey(m), acc |-> acc]
        ELSE IF fail = k THEN [err |-> BestConstructError, acc |-> acc]
        ELSE LET bp == Get(param_combinations)[bi[m]]
                 used == LiveIds \cup {e.id : e \in DictValues(acc.best_estimator)}
             IN  MeasureLoop(k + 1,
                     [cv_results |-> cv,
                      best_index |-> bi,
                      best_params |-> DictPut(acc.best_params, m, bp),
                      best_score |-> DictPut(acc.best_score, m, mean_test_measures[bi[m]]),
                      best_estimator |->
                          DictPut(acc.best_estimator, m, NewEstimator(bp, FreshId(used)))],
                     results, sorts, fail)

\* lines 136-140: the params column and one column per parameter name
WithParams(acc) ==
    LET pcs == Get(param_combinations)
    IN  [acc EXCEPT !.cv_results.params = pcs,
                    !.cv_results.param =
                        [name \in DOMAIN pcs[0] |-> [i \in DOMAIN pcs |-> pcs[i][name]]]]

\* lines 73-140 on the list Parallel returned
Aggregate(results, sorts, fail) ==
    IF MissingAt(results) # {}
    THEN [err |-> MissingMeasureKey(measures[Min(MissingAt(results))]), acc |-> EmptyLocals]
    ELSE LET r == MeasureLoop(0, EmptyLocals, results, sorts, fail)
         IN  IF r.err = NoErr THEN [err |-> NoErr, acc |-> WithParams(r.acc)] ELSE r

\* what argsort() may return for every measure
SortChoices(results) ==
    IF MissingAt(results) # {}
    THEN {[k \in DOMAIN measures |-> [i \in 0..(n_combinations - 1) |-> i]]}
    ELSE LET sorted == [k \in DOMAIN measures |->
                          Argsorts(MeanTest(TestMatrix(results, measures[k])))]
         IN  {s \in [DOMAIN measures -> UNION {sorted[k] : k \in DOMAIN measures}] :
                \A k \in DOMAIN measures : s[k] \in sorted[k]}

(***************************************************************************)
(* fit(): lines 54-149.                                                    *)
(***************************************************************************)
cfg == <<param_grid, param_combinations, measures, refit, n_jobs>>

\* an exception leaves fit(): its locals are gone, nothing was assigned
Raise(e) ==
    /\ pc' = "idle"
    /\ last' = Call("fit", e, <<>>)
    /\ delayed' = <<>>
    /\ out' = <<>>
    /\ loc' = Unset
    /\ UNCHANGED <<cfg, attrs, data>>

\* line 56
PrecheckOnlyBoolRefit(d) == refit = "True" /\ d.user_folds

PrecheckFails(d) == refit # "" /\ d.user_folds

\* lines 54-60: the call, the refit / load_from_folds() check, get_cv()
FitEnter ==
    /\ pc = "idle"
    /\ IsSet(param_combinations)
    /\ \E d \in Datasets :
        /\ data' = d
        /\ IF PrecheckFails(d)
           THEN /\ last' = Call("fit", RefitWithFoldsError, <<>>)
                /\ UNCHANGED <<pc, delayed, out, loc>>
           ELSE /\ pc' = "dispatch"
                /\ last' = Call("fit", NoErr, <<>>)
                /\ delayed' = <<>>
                /\ out' = <<>>
                /\ loc' = Unset
    /\ UNCHANGED <<cfg, attrs>>

\* lines 62-68: the generator yields the next delayed call, constructing its
\* estimator; the constructor may raise
FitSubmit ==
    /\ pc = "dispatch"
    /\ Size(delayed) < n_trials
    /\ Cardinality(Running) < Window
    /\ LET k == Size(delayed)
           t == Trials[k]
       IN  \/ /\ delayed' = Extend(delayed,
                    [params |-> t.params, fold |-> t.fold,
                     est |-> NewEstimator(t.params, FreshId(LiveIds))])
              /\ UNCHANGED <<cfg, attrs, pc, data, out, loc, last>>
           \/ Raise(TrialConstructError)

\* lines 69-71: a worker returns the result of a running trial, or raises
FitReturn ==
    /\ pc = "dispatch"
    /\ \E k \in Running :
        \/ /\ out' = [s \in (DOMAIN out) \cup {Slot(k)} |->
                        IF s = Slot(k) THEN fit_and_score(data, delayed[k], k) ELSE out[s]]
           /\ UNCHANGED <<cfg, attrs, pc, data, delayed, loc, last>>
        \/ Raise(WorkerError)

\* lines 73-140, once Parallel has returned the whole list
FitAggregate ==
    /\ pc = "dispatch"
    /\ Size(delayed) = n_trials
    /\ Running = {}
    /\ LET results == [k \in 0..(n_trials - 1) |-> out[k]]
       IN  \E sorts \in SortChoices(results), fail \in 0..Size(measures) :
              LET r == Aggregate(results, sorts, fail)
              IN  IF r.err # NoErr
                  THEN Raise(r.err)
                  ELSE /\ loc' = Some(r.acc)
                       /\ pc' = "refit"
                       /\ UNCHANGED <<cfg, attrs, data, delayed, out, last>>

\* the five assignments of lines 145-149
Assign(l) ==
    /\ best_index' = Some(l.best_index)
    /\ best_params' = Some(l.best_params)
    /\ best_score' = Some(l.best_score)
    /\ best_estimator' = Some(l.best_estimator)
    /\ cv_results' = Some(l.cv_results)

\* lines 142-143 with the assignments of lines 145-149 made before them
FitRefitAfterAssign ==
    /\ pc = "refit"
    /\ \/ /\ refit = ""
          /\ pc' = "commit"
          /\ UNCHANGED <<cfg, attrs, data, delayed, out, loc, last>>
       \/ /\ refit # ""
          /\ loc' = Some([Get(loc) EXCEPT !.best_estimator[refit] = FitFull(@)])
          /\ pc' = "commit"
          /\ UNCHANGED <<cfg, attrs, data, delayed, out, last>>
       \/ /\ refit # ""
          /\ Assign(Get(loc))
          /\ pc' = "idle"
          /\ last' = Call("fit", FullFitError, <<>>)
          /\ delayed' = <<>>
          /\ out' = <<>>
          /\ loc' = Unset
          /\ UNCHANGED <<cfg, data>>

\* lines 142-143: best_estimator[self.refit].fit(data.build_full_trainset())
FitRefit ==
    /\ pc = "refit"
    /\ \/ /\ refit = ""
          /\ pc' = "commit"
          /\ UNCHANGED <<cfg, attrs, data, delayed, out, loc, last>>
       \/ /\ refit # ""
          /\ loc' = Some([Get(loc) EXCEPT !.best_estimator[refit] = FitFull(@)])
          /\ pc' = "commit"
          /\ UNCHANGED <<cfg, attrs, data, delayed, out, last>>
       \/ /\ refit # ""
          /\ Raise(FullFitError)

\* lines 145-149
FitCommit ==
    /\ pc = "commit"
    /\ Assign(Get(loc))
    /\ pc' = "idle"
    /\ last' = Call("fit", NoErr, <<>>)
    /\ delayed' = <<>>
    /\ out' = <<>>
    /\ loc' = Unset
    /\ UNCHANGED <<cfg, data>>

(***************************************************************************)
(* test() and predict(): lines 151-175.                                    *)
(***************************************************************************)
TestSets == {"testset"}
PredictArgs == {"uid_iid"}

\* self.best_estimator[self.refit]
FirstMeasureEstimator == Get(best_estimator)[measures[0]]

RefitEstimator == Get(best_estimator)[refit]

test ==
    /\ pc = "idle"
    /\ \E x \in TestSets :
        last' = IF refit = "" THEN Call("test", RefitDisabledTest, <<>>)
                ELSE IF ~IsSet(best_estimator) THEN Call("test", NoBestEstimatorTest, <<>>)
                ELSE Call("test", NoErr, Some(EstimatorTest(RefitEstimator, x)))
    /\ UNCHANGED <<cfg, attrs, pc, data, delayed, out, loc>>

predict ==
    /\ pc = "idle"
    /\ \E x \in PredictArgs :
        last' = IF refit = "" THEN Call("predict", RefitDisabledPredict, <<>>)
                ELSE IF ~IsSet(best_estimator) THEN Call("predict", NoBestEstimatorPredict, <<>>)
                ELSE Call("predict", NoErr, Some(EstimatorPredict(RefitEstimator, x)))
    /\ UNCHANGED <<cfg, attrs, pc, data, delayed, out, loc>>

(***************************************************************************)
(* GridSearchCV.__init__: lines 267-278.                                   *)
(***************************************************************************)
\* lines 276-278; data holds the param_grid argument while pc = "init"
GridSearchCV_init ==
    /\ pc = "init"
    /\ param_grid' = Some(_parse_options(data))
    /\ param_combinations' = Some(Combinations(_parse_options(data)))
    /\ pc' = "idle"
    /\ last' = Call("init", NoErr, <<>>)
    /\ UNCHANGED <<measures, refit, n_jobs, attrs, data, delayed, out, loc>>

(***************************************************************************)
(* The search object that is fitted: a grid search over one parameter k    *)
(* with NComb values.                                                      *)
(***************************************************************************)
FitGrid == << ListEntry("k", [i \in 1..NComb |-> i]) >>

MeasureArgs == {ZeroBased(<<"rmse">>), ZeroBased(<<"RMSE", "fcp">>), ZeroBased(<<"mae", "mse">>)}
RefitArgs == {RefitBool(FALSE), RefitBool(TRUE), RefitStr("FCP"), RefitStr("mae")}
NJobsArgs == {1, 2}

Constructed(margs, rarg, nj) ==
    LET ms == LowerAll(margs)
        r == InitRefit(rarg, ms)
    IN  /\ r.ok
        /\ measures = ms
        /\ refit = r.refit
        /\ n_jobs = nj
        /\ param_grid = Some(_parse_options(FitGrid))
        /\ param_combinations = Some(Combinations(_parse_options(FitGrid)))
        /\ best_index = Unset
        /\ best_params = Unset
        /\ best_score = Unset
        /\ best_estimator = Unset
        /\ cv_results = Unset
        /\ loc = Unset

Init ==
    /\ \E margs \in MeasureArgs, rarg \in RefitArgs, nj \in NJobsArgs :
          Constructed(margs, rarg, nj)
    /\ pc = "idle"
    /\ data = [user_folds |-> FALSE, table |-> "asc", drops |-> FALSE]
    /\ delayed = <<>>
    /\ out = <<>>
    /\ last = Call("init", NoErr, <<>>)

Next ==
    \/ FitEnter
    \/ FitSubmit
    \/ FitReturn
    \/ FitAggregate
    \/ FitRefit
    \/ FitCommit
    \/ test
    \/ predict

Spec == Init /\ [][Next]_vars

(***************************************************************************)
(* Grid expansion on its own: GridSearchCV.__init__ applied to every grid  *)
(* of at most two parameters.                                              *)
(***************************************************************************)
ValueLists == UNION {[1..n -> 1..MaxValues] : n \in 1..MaxValues}
ListEntries == {ListEntry(n, vs) : n \in {"a", "b"}, vs \in ValueLists}
DictEntries1 == {DictEntry("sim_options", << ListEntry("name", vs) >>) : vs \in ValueLists}
DictEntries2 ==
    {DictEntry("sim_options", << ListEntry("name", vs), ListEntry("user_based", ws) >>) :
        vs \in ValueLists, ws \in ValueLists}
Grids ==
    {<<e>> : e \in ListEntries \cup DictEntries1 \cup DictEntries2}
      \cup {g \in (ListEntries \cup DictEntries1) \X (ListEntries \cup DictEntries1) :
                g[1].name # g[2].name}

\* inside GridSearchCV.__init__, after BaseSearchCV.__init__ with its defaults
InitGrid ==
    /\ pc = "init"
    /\ data \in Grids
    /\ param_grid = Unset
    /\ param_combinations = Unset
    /\ measures = ZeroBased(<<"rmse", "mae">>)
    /\ refit = ""
    /\ n_jobs = 1
    /\ best_index = Unset
    /\ best_params = Unset
    /\ best_score = Unset
    /\ best_estimator = Unset
    /\ cv_results = Unset
    /\ delayed = <<>>
    /\ out = <<>>
    /\ loc = Unset
    /\ last = Call("init", NoErr, <<>>)

NextGrid == GridSearchCV_init

SpecGrid == InitGrid /\ [][NextGrid]_vars

(***************************************************************************)
(* Aggregation on its own: fit() at the point where Parallel has returned, *)
(* for every score the worker can have measured on every trial.            *)
(***************************************************************************)
AggMeasureArgs == {ZeroBased(<<"rmse">>), ZeroBased(<<"FCP">>)}
ScoreLists == [0..(NComb * NFolds - 1) -> 0..MaxScore]

InitAgg ==
    /\ \E margs \in AggMeasureArgs : Constructed(margs, RefitBool(TRUE), 1)
    /\ pc = "dispatch"
    /\ data = [user_folds |-> FALSE, table |-> "any", drops |-> FALSE]
    /\ delayed = [k \in DOMAIN Trials |->
                    [params |-> Trials[k].params, fold |-> Trials[k].fold,
                     est |-> NewEstimator(Trials[k].params, k)]]
    /\ \E sc \in ScoreLists :
          out = [k \in DOMAIN Trials |->
                    [trial |-> k,
                     test_measures |-> [m \in MeasureSet(measures) |-> sc[k]]]]
    /\ last = Call("fit", NoErr, <<>>)

NextAgg ==
    \/ FitAggregate
    \/ FitRefit
    \/ FitCommit

SpecAgg == InitAgg /\ [][NextAgg]_vars

(***************************************************************************)
(* Properties.                                                             *)
(***************************************************************************)
Combos == Get(param_combinations)
FitSucceeded == pc = "idle" /\ last.op = "fit" /\ last.err = NoErr
FitRaised == pc = "idle" /\ last.op = "fit" /\ last.err # NoErr
AllAttrsSet ==
    /\ IsSet(best_index)
    /\ IsSet(best_params)
    /\ IsSet(best_score)
    /\ IsSet(best_estimator)
    /\ IsSet(cv_results)
NoAttrSet ==
    /\ ~IsSet(best_index)
    /\ ~IsSet(best_params)
    /\ ~IsSet(best_score)
    /\ ~IsSet(best_estimator)
    /\ ~IsSet(cv_results)

\* the raw scores of this run, as Parallel returned them
RunMean(m, i) == SumTo([j \in 0..(NFolds - 1) |-> out[i * NFolds + j].test_measures[m]],
                       NFolds - 1)

\* C1: a step of fit() changes the five attributes only when it is the last
\* step of a call that completes, and then it sets all five from the results
\* of that very run; every step that raises, and every other step, leaves
\* all five as they were.
C1_FitAllOrNothing ==
    [][/\ (attrs' # attrs) =>
              /\ pc = "commit"
              /\ FitSucceeded'
              /\ AllAttrsSet'
              /\ best_index' = Some(Get(loc).best_index)
              /\ best_params' = Some(Get(loc).best_params)
              /\ best_score' = Some(Get(loc).best_score)
              /\ best_estimator' = Some(Get(loc).best_estimator)
              /\ cv_results' = Some(Get(loc).cv_results)
              /\ \A m \in MeasureSet(measures) :
                    /\ m \in DOMAIN Get(best_index')
                    /\ \A i \in DOMAIN Combos :
                          Get(cv_results').mean_test[m][i] = RunMean(m, i)
                    /\ Get(best_score')[m] = RunMean(m, Get(best_index')[m])
       /\ FitRaised' => attrs' = attrs
       /\ (pc # "idle" /\ FitSucceeded') => (AllAttrsSet' /\ pc = "commit")
      ]_vars

\* C1 witness: a fit() raised in the final refit while an earlier fit()'s
\* results were in place.
C1_Witness ==
    /\ FitRaised
    /\ last.err = FullFitError
    /\ AllAttrsSet

\* C2 as stated: test() and predict() raise the refit-disabled error whenever
\* no refit-enabled fit() has completed, and otherwise return the refit
\* estimator's result.
C2_Original ==
    (pc = "idle" /\ last.op \in {"test", "predict"}) =>
        IF refit # "" /\ IsSet(best_estimator)
        THEN last.err = NoErr
        ELSE last.err = (IF last.op = "test" THEN RefitDisabledTest
                         ELSE RefitDisabledPredict)

\* C2 amended: test() and predict() raise the refit-disabled error exactly
\* when no refit measure is configured; with a refit measure configured and
\* no fit() completed they fail with an AttributeError instead
\* (best_estimator does not exist); once a fit() with a refit measure has
\* completed they return, unmodified, the result of the same operation on
\* best_estimator[refit], the estimator built from best_params[refit] and
\* fitted on the full trainset.
C2_TestPredictGate ==
    (pc = "idle" /\ last.op \in {"test", "predict"}) =>
        LET isTest == last.op = "test"
        IN  IF refit = ""
            THEN /\ last.err = (IF isTest THEN RefitDisabledTest ELSE RefitDisabledPredict)
                 /\ last.value = <<>>
            ELSE IF ~IsSet(best_estimator)
            THEN /\ last.err = (IF isTest THEN NoBestEstimatorTest
                                ELSE NoBestEstimatorPredict)
                 /\ last.value = <<>>
            ELSE LET e == Get(best_estimator)[refit]
                 IN  /\ last.err = NoErr
                     /\ e.fitted
                     /\ e.params = Get(best_params)[refit]
                     /\ \E x \in (IF isTest THEN TestSets ELSE PredictArgs) :
                           last.value = Some(IF isTest THEN EstimatorTest(e, x)
                                             ELSE EstimatorPredict(e, x))

\* C2 witness: test() delegated to the estimator of a refit measure that is
\* not the first measure, and that estimator differs from the first one's.
C2_Witness ==
    /\ pc = "idle"
    /\ last.op = "test"
    /\ last.err = NoErr
    /\ refit # measures[0]
    /\ Get(best_estimator)[refit].params # Get(best_estimator)[measures[0]].params

\* C3: a fit() on data loaded from pre-defined folds, with a refit measure
\* configured, raises the refit / folds ValueError at once: no estimator is
\* constructed, no trial is submitted or run, and the object is unchanged.
C3_RefitWithFoldsRaisesFirst ==
    [][(pc = "idle" /\ last'.op = "fit" /\ refit # "" /\ data'.user_folds) =>
          /\ last' = Call("fit", RefitWithFoldsError, <<>>)
          /\ pc' = "idle"
          /\ delayed' = <<>>
          /\ out' = <<>>
          /\ loc' = Unset
          /\ attrs' = attrs
          /\ cfg' = cfg
      ]_vars

\* C3 witness: such a fit() raised on an object holding earlier results.
C3_Witness ==
    /\ pc = "idle"
    /\ last = Call("fit", RefitWithFoldsError, <<>>)
    /\ data.user_folds
    /\ AllAttrsSet

\* C4: whatever the order in which the trials complete, the list the
\* aggregator consumes holds the result of the k-th submitted trial at
\* position k, and the table built from it is the one of the sequential run:
\* every per-split score, mean and best index is the one the data fixes.
C4_ResultsInSubmissionOrder ==
    /\ \A s \in DOMAIN out : out[s].trial = s
    /\ IsSet(loc) =>
          \A m \in MeasureSet(measures) :
              LET seq == [i \in DOMAIN Combos |->
                            [j \in 0..(NFolds - 1) |-> Score(data.table, Combos[i], j)]]
                  mean == [i \in DOMAIN Combos |-> SumTo(seq[i], NFolds - 1)]
                  cvr == Get(loc).cv_results
              IN  /\ \A i \in DOMAIN Combos, j \in 0..(NFolds - 1) :
                         cvr.split_test[m][j][i] = seq[i][j]
                  /\ cvr.mean_test[m] = mean
                  /\ Get(loc).best_score[m] = mean[Get(loc).best_index[m]]

\* C4 witness: trial 1 has returned before trial 0, and its result sits at
\* position 1 of the list.
C4_Witness ==
    /\ pc = "dispatch"
    /\ n_jobs = 2
    /\ data.table = "asc"
    /\ 1 \in DOMAIN out
    /\ 0 \notin DOMAIN out

\* C5: the k-th submitted trial is combination k div n_folds on fold
\* k mod n_folds (the fold varies fastest), each trial has an estimator of
\* its own built from its combination, a fit() that reaches aggregation has
\* submitted exactly n_combinations * n_folds trials, and entry (i, j) of the
\* reshaped scores is the result of combination i on fold j.
C5_TrialsFoldFastest ==
    /\ Size(delayed) <= Size(Combos) * NFolds
    /\ \A k \in DOMAIN delayed :
          /\ delayed[k].params = Combos[k \div NFolds]
          /\ delayed[k].fold = k % NFolds
          /\ delayed[k].est.params = delayed[k].params
          /\ \A l \in DOMAIN delayed : l # k => delayed[l].est.id # delayed[k].est.id
    /\ IsSet(loc) =>
          /\ Size(delayed) = Size(Combos) * NFolds
          /\ \A i \in DOMAIN Combos, j \in 0..(NFolds - 1) :
                \E k \in DOMAIN delayed :
                    /\ delayed[k].params = Combos[i]
                    /\ delayed[k].fold = j
                    /\ \A l \in DOMAIN delayed :
                          (delayed[l].params = Combos[i] /\ delayed[l].fold = j) => l = k
                    /\ \A m \in MeasureSet(measures) :
                          Get(loc).cv_results.split_test[m][j][i]
                              = fit_and_score(data, delayed[k], k).test_measures[m]

\* C5 witness: all trials were submitted and their scores reshaped.
C5_Witness ==
    /\ IsSet(loc)
    /\ Size(delayed) = NComb * NFolds
    /\ data.table = "asc"

\* C6: after a fit() that completed, rank_test_m takes every value of
\* 1..n_combinations exactly once, for every requested measure m, ties among
\* the means included.
C6_RanksArePermutation ==
    IsSet(cv_results) =>
        \A m \in MeasureSet(measures) :
            LET rank == Get(cv_results).rank_test[m]
            IN  /\ DOMAIN rank = DOMAIN Combos
                /\ {rank[i] : i \in DOMAIN rank} = 1..Size(Combos)
                /\ \A a, b \in DOMAIN rank : rank[a] = rank[b] => a = b

\* C6 witness: a completed fit() in which two combinations have equal means.
C6_Witness ==
    /\ FitSucceeded
    /\ IsSet(cv_results)
    /\ \E m \in MeasureSet(measures) :
          \E a, b \in DOMAIN Combos :
              a # b /\ Get(cv_results).mean_test[m][a] = Get(cv_results).mean_test[m][b]

\* C7: after a fit() that completed, best_index[m] is the lowest index
\* holding the smallest mean (mae, rmse) or the largest mean (fcp) of the
\* per-fold scores, best_params[m] is the combination at that index and
\* best_score[m] its mean.
C7_BestIsFirstExtreme ==
    AllAttrsSet =>
        \A m \in MeasureSet(measures) :
            LET cvr == Get(cv_results)
                mean == cvr.mean_test[m]
                b == Get(best_index)[m]
            IN  /\ \A i \in DOMAIN Combos :
                      mean[i] = SumTo([j \in 0..(NFolds - 1) |-> cvr.split_test[m][j][i]],
                                      NFolds - 1)
                /\ b \in DOMAIN Combos
                /\ m \in {"mae", "rmse"} =>
                      \A i \in DOMAIN Combos :
                          mean[b] <= mean[i] /\ (mean[i] = mean[b] => b <= i)
                /\ m \in {"fcp"} =>
                      \A i \in DOMAIN Combos :
                          mean[b] >= mean[i] /\ (mean[i] = mean[b] => b <= i)
                /\ m \in {"mae", "rmse", "fcp"}
                /\ Get(best_params)[m] = Combos[b]
                /\ Get(best_score)[m] = mean[b]

\* C7 witness: a completed fit() in which the smallest rmse mean is held by
\* two combinations, and the lower index was selected.
C7_Witness ==
    /\ FitSucceeded
    /\ AllAttrsSet
    /\ "rmse" \in MeasureSet(measures)
    /\ LET mean == Get(cv_results).mean_test["rmse"]
       IN  \E a, b \in DOMAIN Combos :
              /\ a < b
              /\ mean[a] = mean[b]
              /\ \A i \in DOMAIN Combos : mean[a] <= mean[i]
              /\ Get(best_index)["rmse"] = a

\* C8: when a requested measure has no known direction, no fit() completes
\* and no selection record is ever produced; a fit() that gets as far as
\* selecting for the first such measure raises the KeyError naming it.
C8_UnknownDirectionFails ==
    LET unknown == {k \in DOMAIN measures : measures[k] \notin {"mae", "rmse", "fcp"}}
    IN  unknown # {} =>
            /\ NoAttrSet
            /\ ~IsSet(loc)
            /\ ~FitSucceeded
            /\ pc \in {"idle", "dispatch"}
            /\ (FitRaised /\ last.err.line \notin {57, 63, 69, 82, 127}) =>
                  last.err = UnknownDirectionKey(measures[Min(unknown)])

\* C8 witness: a fit() raised the KeyError naming the unknown measure.
C8_Witness ==
    /\ FitRaised
    /\ last.err = UnknownDirectionKey("mse")
    /\ "mse" \in MeasureSet(measures)

\* the number of values an entry contributes
ListCount(es, k) == Len(es[k].values)
EntryCount(e) ==
    IF e.nested
    THEN IF Len(e.sub) = 1 THEN ListCount(e.sub, 1)
         ELSE ListCount(e.sub, 1) * ListCount(e.sub, 2)
    ELSE Len(e.values)
GridCount(g) == IF Len(g) = 1 THEN EntryCount(g[1]) ELSE EntryCount(g[1]) * EntryCount(g[2])

NoRepeat(vs) == \A a, b \in 1..Len(vs) : vs[a] = vs[b] => a = b
EntryNoRepeat(e) ==
    IF e.nested THEN \A k \in 1..Len(e.sub) : NoRepeat(e.sub[k].values)
    ELSE NoRepeat(e.values)

GridKeys(g) == {g[k].name : k \in 1..Len(g)}

====
